---- MODULE Spec2Model ----
(***************************************************************************)
(* ImmutableObject (src/vendor_upstream/immutable-value/ImmutableObject.js) *)
(* modelled over an explicit object heap.                                  *)
(*                                                                         *)
(* A JavaScript value is a record [t, v]: undefined, null, a primitive     *)
(* number, or a reference to a heap object.  A heap object has a kind      *)
(* ("imm" = instance of ImmutableValue, "plain" = object literal, "array") *)
(* and an ordered sequence of own enumerable entries.  Property names are  *)
(* identifier-like strings, whose enumeration order is insertion order;    *)
(* array elements are entries named by their index.                        *)
(*                                                                         *)
(* The heap is an allocation log: every object a call allocates is         *)
(* appended, temporaries included.  `handles` are the addresses the caller *)
(* holds (the fixtures it built and every result returned to it).          *)
(***************************************************************************)
EXTENDS Integers, Sequences

VARIABLES heap, handles, last, calls

vars == <<heap, handles, last, calls>>

\* Number of caller-facing calls explored in one behaviour.
MaxCalls == 2

(***************************************************************************)
(* Values and objects                                                      *)
(***************************************************************************)
Undefined == [t |-> "undef", v |-> 0]

Null == [t |-> "null", v |-> 0]

Prim(n) == [t |-> "prim", v |-> n]

Ref(a) == [t |-> "ref", v |-> a]

Entry(k, x) == [key |-> k, val |-> x]

Object(kind, entries) == [kind |-> kind, entries |-> entries]

IsRef(x) == x.t = "ref"

\* Keys of an entry sequence, in order.
KeysOf(entries) == [i \in 1..Len(entries) |-> entries[i].key]

\* Whether an entry sequence holds the key.
HasKey(entries, k) == \E i \in 1..Len(entries) : entries[i].key = k

\* The value an entry sequence holds at the key (undefined when absent).
ValueAt(entries, k) ==
  IF HasKey(entries, k)
    THEN entries[CHOOSE i \in 1..Len(entries) : entries[i].key = k].val
    ELSE Undefined

\* `o[key] = val` on an entry sequence: an existing key keeps its position,
\* a new key is appended.
Assign(entries, k, x) ==
  IF HasKey(entries, k)
    THEN [i \in 1..Len(entries) |->
            IF entries[i].key = k THEN Entry(k, x) ELSE entries[i]]
    ELSE Append(entries, Entry(k, x))

\* Own enumerable entries of a value: those of the object a reference names,
\* none for undefined, null and numbers.
OwnEntries(h, x) == IF IsRef(x) THEN h[x.v].entries ELSE <<>>

\* Object.keys(x)
ObjectKeys(h, x) == KeysOf(OwnEntries(h, x))

\* x.hasOwnProperty(key)
hasOwnProperty(h, x, k) == HasKey(OwnEntries(h, x), k)

\* x[key]
GetProp(h, x, k) == ValueAt(OwnEntries(h, x), k)

\* `h[a][key] = val`: a write into the object at address a.
SetProp(h, a, k, x) ==
  [h EXCEPT ![a] = Object(h[a].kind, Assign(h[a].entries, k, x))]

\* x instanceof ImmutableValue
instanceofImmutableValue(h, x) == IsRef(x) /\ h[x.v].kind = "imm"

\* Array.isArray(x)
isArray(h, x) == IsRef(x) /\ h[x.v].kind = "array"

\* typeof x === 'object'
typeofObject(x) == x.t \in {"null", "ref"}

\* A plain mapping or an Immutable Value: an object that is not an array.
IsMapping(h, x) == IsRef(x) /\ h[x.v].kind \in {"imm", "plain"}

\* The outcome of a call or of a helper: the heap after it, the value it
\* returns and the error it raises ("none" when it returns).
Outcome(h, res, err) == [heap |-> h, res |-> res, err |-> err]

(***************************************************************************)
(* Collaborators (ImmutableValue, mergeHelpers)                            *)
(***************************************************************************)
\* mergeHelpers.isTerminal: a value is terminal unless it is a mapping
\* (primitives, null, undefined and arrays are terminal).
isTerminal(h, x) == ~IsMapping(h, x)

\* mergeHelpers.checkMergeObjectArgs: both sides must be mappings.
checkMergeObjectArgs(h, one, two) == IsMapping(h, one) /\ IsMapping(h, two)

RECURSIVE AssignAll(_, _, _)
\* Copies the entries of one source into the object at address a, in the
\* source's order.
AssignAll(h, a, entries) ==
  IF entries = <<>> THEN h
  ELSE AssignAll(SetProp(h, a, Head(entries).key, Head(entries).val),
                 a, Tail(entries))

RECURSIVE mergeAllPropertiesInto(_, _, _)
\* ImmutableValue.mergeAllPropertiesInto(destination, propertyObjects):
\* each source's own entries are assigned into the destination in turn; a
\* null or undefined source contributes nothing.
mergeAllPropertiesInto(h, a, sources) ==
  IF sources = <<>> THEN h
  ELSE mergeAllPropertiesInto(AssignAll(h, a, OwnEntries(h, Head(sources))),
                              a, Tail(sources))

(***************************************************************************)
(* ImmutableObject                                                         *)
(***************************************************************************)
\* assertImmutable(immutable): whether the assertion passes.
assertImmutable(h, immutable) == instanceofImmutableValue(h, immutable)

\* new ImmutableObject(...sources): a fresh Immutable Value holding the
\* sources merged in order.
ImmutableObject(h, sources) ==
  LET h1 == Append(h, Object("imm", <<>>))
      this == Len(h1)
  IN Outcome(mergeAllPropertiesInto(h1, this, sources), Ref(this), "none")

\* Faulty variant of setPutIsValid: the array test is missing.
setPutIsValidNoArrayTest(h, put) == typeofObject(put) /\ put # Undefined

\* The patch check of ImmutableObject.set.
setPutIsValid(h, put) ==
  typeofObject(put) /\ put # Undefined /\ ~isArray(h, put)

\* Faulty variant of setSources: the patch is merged first, the base over it.
setSourcesSwapped(immutable, put) == <<put, immutable>>

\* The sources ImmutableObject.set hands to the constructor.
setSources(immutable, put) == <<immutable, put>>

\* ImmutableObject.set(immutable, put)
set(h, immutable, put) ==
  IF ~assertImmutable(h, immutable) THEN Outcome(h, Undefined, "NotImmutable")
  ELSE IF ~setPutIsValid(h, put) THEN Outcome(h, Undefined, "InvalidPatch")
  ELSE ImmutableObject(h, setSources(immutable, put))

\* ImmutableObject.setProperty(immutableObject, fieldName, putField)
setProperty(h, immutableObject, fieldName, putField) ==
  LET h1 == Append(h, Object("plain", <<>>))
      put == Len(h1)
      h2 == SetProp(h1, put, fieldName, putField)
  IN set(h2, immutableObject, Ref(put))

\* Faulty variant of deleteKeeps: nothing is filtered out.
deleteKeepsAll(key, droppedField) == TRUE

\* The filter of deleteProperty's copy loop.
deleteKeeps(key, droppedField) == key # droppedField

RECURSIVE deleteLoop(_, _, _, _)
\* The for-in loop of deleteProperty over the base's own entries.
deleteLoop(h, copy, entries, droppedField) ==
  IF entries = <<>> THEN h
  ELSE deleteLoop(
         IF deleteKeeps(Head(entries).key, droppedField)
           THEN SetProp(h, copy, Head(entries).key, Head(entries).val)
           ELSE h,
         copy, Tail(entries), droppedField)

\* Faulty variant of deleteProperty: the field is removed from the base itself,
\* which is returned.
deletePropertyInPlace(h, immutableObject, droppedField) ==
  IF ~IsRef(immutableObject) THEN ImmutableObject(h, <<>>)
  ELSE LET o == h[immutableObject.v]
           kept == SelectSeq(o.entries, LAMBDA e : e.key # droppedField)
       IN Outcome([h EXCEPT ![immutableObject.v] = Object(o.kind, kept)],
                  immutableObject, "none")

\* ImmutableObject.deleteProperty(immutableObject, droppedField)
deleteProperty(h, immutableObject, droppedField) ==
  LET h1 == Append(h, Object("plain", <<>>))
      copy == Len(h1)
      h2 == deleteLoop(h1, copy, OwnEntries(h, immutableObject), droppedField)
  IN ImmutableObject(h2, <<Ref(copy)>>)

\* Names of array elements.
IndexKey(i) == <<"0", "1", "2", "3", "4", "5", "6", "7", "8", "9">>[i]

\* ImmutableObject.values(immutable): Object.keys raises a TypeError on
\* undefined and null; otherwise a fresh array of the own values in key order
\* (a number has no own keys).
values(h, immutable) ==
  IF immutable.t \in {"undef", "null"} THEN Outcome(h, Undefined, "TypeError")
  ELSE LET es == OwnEntries(h, immutable)
           arr == Object("array", [i \in 1..Len(es) |-> Entry(IndexKey(i), es[i].val)])
           h1 == Append(h, arr)
       IN Outcome(h1, Ref(Len(h1)), "none")

\* Faulty variant of keyBranch: a shared key is never recursed into.
keyBranchShallow(h, obj, put, key) ==
  IF ~hasOwnProperty(h, put, key) THEN "carry" ELSE "replace"

\* Faulty variant of keyBranch: a shared key is replaced only when both sides
\* are terminal.
keyBranchBothTerminal(h, obj, put, key) ==
  IF ~hasOwnProperty(h, put, key) THEN "carry"
  ELSE IF isTerminal(h, GetProp(h, obj, key)) /\ isTerminal(h, GetProp(h, put, key))
    THEN "replace"
  ELSE "recurse"

\* _setDeep, the branch taken for a base key (lines 154-159).
keyBranch(h, obj, put, key) ==
  IF ~hasOwnProperty(h, put, key) THEN "carry"
  ELSE IF isTerminal(h, GetProp(h, obj, key)) \/ isTerminal(h, GetProp(h, put, key))
    THEN "replace"
  ELSE "recurse"

\* Faulty variant of carried: the value is read from the patch.
carriedFromPut(h, obj, put, key) == GetProp(h, put, key)

\* _setDeep, the value carried forward for a base key the patch lacks.
carried(h, obj, put, key) == GetProp(h, obj, key)

\* Faulty variant of replaced: the base's value is kept.
replacedByBase(h, obj, put, key) == GetProp(h, obj, key)

\* _setDeep, the value stored for a key either side of which is terminal.
replaced(h, obj, put, key) == GetProp(h, put, key)

\* Faulty variant of wraps: only the base is tested.
wrapsObjOnly(h, obj, put) == instanceofImmutableValue(h, obj)

\* _setDeep, whether the merged fields are wrapped in a new ImmutableObject.
wraps(h, obj, put) ==
  instanceofImmutableValue(h, obj) \/ instanceofImmutableValue(h, put)

RECURSIVE _setDeep(_, _, _)
RECURSIVE baseLoop(_, _, _, _, _)
\* _setDeep, the loop over the base's keys from index ii on, writing into
\* totalNewFields (the object at address total).
baseLoop(h, obj, put, total, ii) ==
  LET keys == ObjectKeys(h, obj) IN
  IF ii > Len(keys) THEN Outcome(h, Ref(total), "none")
  ELSE LET key == keys[ii]
           branch == keyBranch(h, obj, put, key)
       IN IF branch = "carry"
            THEN baseLoop(SetProp(h, total, key, carried(h, obj, put, key)),
                          obj, put, total, ii + 1)
          ELSE IF branch = "replace"
            THEN baseLoop(SetProp(h, total, key, replaced(h, obj, put, key)),
                          obj, put, total, ii + 1)
          ELSE LET r == _setDeep(h, GetProp(h, obj, key), GetProp(h, put, key))
               IN IF r.err # "none" THEN r
                  ELSE baseLoop(SetProp(r.heap, total, key, r.res),
                                obj, put, total, ii + 1)

RECURSIVE newKeysLoop(_, _, _, _, _)
\* _setDeep, the loop over the patch's keys from index ii on: keys the base
\* lacks are appended with the patch's value.
newKeysLoop(h, obj, put, total, ii) ==
  LET newKeys == ObjectKeys(h, put) IN
  IF ii > Len(newKeys) THEN h
  ELSE IF hasOwnProperty(h, obj, newKeys[ii])
    THEN newKeysLoop(h, obj, put, total, ii + 1)
  ELSE newKeysLoop(SetProp(h, total, newKeys[ii], GetProp(h, put, newKeys[ii])),
                   obj, put, total, ii + 1)

\* _setDeep(obj, put)
_setDeep(h, obj, put) ==
  IF ~checkMergeObjectArgs(h, obj, put)
    THEN Outcome(h, Undefined, "MalformedMergePair")
  ELSE LET h1 == Append(h, Object("plain", <<>>))
           totalNewFields == Len(h1)
           r == baseLoop(h1, obj, put, totalNewFields, 1)
       IN IF r.err # "none" THEN r
          ELSE LET h2 == newKeysLoop(r.heap, obj, put, totalNewFields, 1)
               IN IF wraps(h2, obj, put)
                    THEN ImmutableObject(h2, <<Ref(totalNewFields)>>)
                    ELSE Outcome(h2, Ref(totalNewFields), "none")

\* ImmutableObject.setDeep(immutable, put)
setDeep(h, immutable, put) ==
  IF ~assertImmutable(h, immutable) THEN Outcome(h, Undefined, "NotImmutable")
  ELSE _setDeep(h, immutable, put)

(***************************************************************************)
(* Callers                                                                 *)
(***************************************************************************)
\* Shallow merge fixture: B = {a:1, b:{m:1}, c:3}, the patch {b:{n:9}, d:5},
\* an array, and the patch {a:9}.
ShallowFixture ==
  [heap |-> << Object("plain", <<Entry("m", Prim(1))>>),
               Object("imm", <<Entry("a", Prim(1)), Entry("b", Ref(1)), Entry("c", Prim(3))>>),
               Object("plain", <<Entry("n", Prim(9))>>),
               Object("plain", <<Entry("b", Ref(3)), Entry("d", Prim(5))>>),
               Object("array", <<Entry("0", Prim(1)), Entry("1", Prim(2))>>),
               Object("plain", <<Entry("a", Prim(9))>>) >>,
   handles |-> {2, 4, 5, 6}]

\* Deep merge fixture: B = {k:{m:1,n:2}}, the patches {k:{n:9,p:3}}, {k:5},
\* {} and {k:I} with I an Immutable Value {n:9}.
DeepFixture ==
  [heap |-> << Object("plain", <<Entry("m", Prim(1)), Entry("n", Prim(2))>>),
               Object("imm", <<Entry("k", Ref(1))>>),
               Object("plain", <<Entry("n", Prim(9)), Entry("p", Prim(3))>>),
               Object("plain", <<Entry("k", Ref(3))>>),
               Object("plain", <<Entry("k", Prim(5))>>),
               Object("plain", <<>>),
               Object("imm", <<Entry("n", Prim(9))>>),
               Object("plain", <<Entry("k", Ref(7))>>) >>,
   handles |-> {2, 4, 5, 6, 8}]

\* Mixed fixture: B = {k:I, a:[1], b:1} with I an Immutable Value
\* {m:1, q:{x:1}}, the patch {k:{m:2, q:[1]}, a:[2], b:{...}} and the patch
\* {a:{...}, k:[1]}.
MixedFixture ==
  [heap |-> << Object("plain", <<Entry("x", Prim(1))>>),
               Object("imm", <<Entry("m", Prim(1)), Entry("q", Ref(1))>>),
               Object("array", <<Entry("0", Prim(1))>>),
               Object("imm", <<Entry("k", Ref(2)), Entry("a", Ref(3)), Entry("b", Prim(1))>>),
               Object("plain", <<Entry("m", Prim(2)), Entry("q", Ref(3))>>),
               Object("array", <<Entry("0", Prim(2))>>),
               Object("plain", <<Entry("k", Ref(5)), Entry("a", Ref(6)), Entry("b", Ref(5))>>),
               Object("plain", <<Entry("a", Ref(5)), Entry("k", Ref(3))>>) >>,
   handles |-> {4, 7, 8}]

\* Nested fixture: B = {k:{m:{x:1}, n:2}} and the patch {k:{m:{y:2}}}.
NestedFixture ==
  [heap |-> << Object("plain", <<Entry("x", Prim(1))>>),
               Object("plain", <<Entry("m", Ref(1)), Entry("n", Prim(2))>>),
               Object("imm", <<Entry("k", Ref(2))>>),
               Object("plain", <<Entry("y", Prim(2))>>),
               Object("plain", <<Entry("m", Ref(4))>>),
               Object("plain", <<Entry("k", Ref(5))>>) >>,
   handles |-> {3, 6}]

Fixtures == {ShallowFixture, DeepFixture, MixedFixture, NestedFixture}

\* The values a caller passes as base or patch.
Args == {Undefined, Null, Prim(1)} \cup {Ref(a) : a \in handles}

\* The field names a caller passes to setProperty and deleteProperty.
FieldNames == {"a", "z"}

\* The values a caller passes to setProperty.
PutFields == {Prim(9)}

NoCall ==
  [op |-> "none", base |-> Undefined, put |-> Undefined, name |-> "",
   res |-> Undefined, err |-> "none"]

\* The caller receives the outcome of a call.
Returns(op, base, put, name, r) ==
  /\ calls < MaxCalls
  /\ heap' = r.heap
  /\ handles' = IF r.err = "none" THEN handles \cup {r.res.v} ELSE handles
  /\ last' = [op |-> op, base |-> base, put |-> put, name |-> name,
              res |-> r.res, err |-> r.err]
  /\ calls' = calls + 1

Init ==
  /\ \E f \in Fixtures : heap = f.heap /\ handles = f.handles
  /\ last = NoCall
  /\ calls = 0

Set ==
  \E immutable \in Args, put \in Args :
    Returns("set", immutable, put, "", set(heap, immutable, put))

SetProperty ==
  \E immutableObject \in Args, fieldName \in FieldNames, putField \in PutFields :
    Returns("setProperty", immutableObject, putField, fieldName,
            setProperty(heap, immutableObject, fieldName, putField))

DeleteProperty ==
  \E immutableObject \in Args, droppedField \in FieldNames :
    Returns("deleteProperty", immutableObject, Undefined, droppedField,
            deleteProperty(heap, immutableObject, droppedField))

SetDeep ==
  \E immutable \in Args, put \in Args :
    Returns("setDeep", immutable, put, "", setDeep(heap, immutable, put))

Values ==
  \E immutable \in Args :
    Returns("values", immutable, Undefined, "", values(heap, immutable))

Next == Set \/ SetProperty \/ DeleteProperty \/ SetDeep \/ Values

Spec == Init /\ [][Next]_vars

(***************************************************************************)
(* Properties                                                              *)
(***************************************************************************)
\* The entries of the last call's base, patch and result.
baseEntries == OwnEntries(heap, last.base)

putEntries == OwnEntries(heap, last.put)

resEntries == OwnEntries(heap, last.res)

\* The keys of p that b lacks, in p's order.
PatchOnlyKeys(b, p) == SelectSeq(KeysOf(p), LAMBDA k : ~HasKey(b, k))

\* The keys of an entry sequence, as a set.
KeySet(entries) == {entries[i].key : i \in 1..Len(entries)}

\* The keys b and p share.
SharedKeys(b, p) == {k \in KeySet(b) : HasKey(p, k)}

RECURSIVE Levels(_, _, _, _)
\* The recursion levels of a deep merge: the triples <<result, base, patch>>
\* of the call and, for every shared key both sides of which are mappings, of
\* the merge below that key.
Levels(h, r, b, p) ==
  {<<r, b, p>>} \cup
  UNION { Levels(h, GetProp(h, r, k), GetProp(h, b, k), GetProp(h, p, k)) :
          k \in {k \in SharedKeys(OwnEntries(h, b), OwnEntries(h, p)) :
                   /\ IsMapping(h, GetProp(h, b, k))
                   /\ IsMapping(h, GetProp(h, p, k))
                   /\ IsMapping(h, GetProp(h, r, k))} }

\* The levels of the last call, a setDeep that returned.
DeepReturned == last.op = "setDeep" /\ last.err = "none"

LastLevels == Levels(heap, last.res, last.base, last.put)

\* C1: set(B, P) on an Immutable Value B and a mapping P returns an Immutable
\* Value whose keys are B's keys in B's order followed by the keys only P has
\* in P's order; a key of P holds P's value itself (no recursion, also when
\* both values are mappings), a key only B has holds B's value.
C1_SetOverlaysOneLevel ==
  (/\ last.op = "set"
   /\ instanceofImmutableValue(heap, last.base)
   /\ IsMapping(heap, last.put))
  => /\ last.err = "none"
     /\ instanceofImmutableValue(heap, last.res)
     /\ KeysOf(resEntries) = KeysOf(baseEntries) \o PatchOnlyKeys(baseEntries, putEntries)
     /\ \A k \in KeySet(resEntries) :
          ValueAt(resEntries, k) =
            IF HasKey(putEntries, k) THEN ValueAt(putEntries, k)
            ELSE ValueAt(baseEntries, k)

\* B with keys [a,b,c] and the patch {b:x, d:y}, x and B's b both mappings:
\* the result has keys [a,b,c,d] and holds x itself at b.
C1_Witness ==
  /\ last.op = "set" /\ last.err = "none"
  /\ KeysOf(baseEntries) = <<"a", "b", "c">>
  /\ KeysOf(putEntries) = <<"b", "d">>
  /\ KeysOf(resEntries) = <<"a", "b", "c", "d">>
  /\ IsMapping(heap, ValueAt(baseEntries, "b"))
  /\ IsMapping(heap, ValueAt(putEntries, "b"))
  /\ ValueAt(resEntries, "b") = ValueAt(putEntries, "b")

\* C2: no call, returning or failing, changes an object that existed before
\* it (bases, earlier results, patches and their sub-values keep their keys,
\* order and value references); a call that returns returns a new object.
C2_NonMutation ==
  [][/\ Len(heap') >= Len(heap)
     /\ \A a \in 1..Len(heap) : heap'[a] = heap[a]
     /\ last'.err = "none" => (IsRef(last'.res) /\ last'.res.v > Len(heap))]_vars

\* A deep merge returned whose base is itself a derived value.
C2_Witness ==
  /\ DeepReturned
  /\ calls >= 2
  /\ \A f \in Fixtures : last.base.v > Len(f.heap)
  /\ Len(resEntries) > 0

\* C3 as stated: set on an Immutable Value fails with InvalidPatch whenever
\* the patch is null, undefined, an array or not a mapping.
C3_AsStated ==
  (/\ last.op = "set"
   /\ instanceofImmutableValue(heap, last.base)
   /\ ~IsMapping(heap, last.put))
  => (last.err = "InvalidPatch" /\ last.res = Undefined)

\* C3, amended: set on an Immutable Value fails with InvalidPatch, returning
\* nothing and allocating nothing, whenever the patch is undefined, an array
\* or not of object type; a null patch passes the patch check.
C3_InvalidPatchRejected ==
  [][(/\ last'.op = "set"
      /\ instanceofImmutableValue(heap, last'.base))
     => /\ (\/ last'.put = Undefined
            \/ isArray(heap, last'.put)
            \/ ~typeofObject(last'.put))
           => (last'.err = "InvalidPatch" /\ last'.res = Undefined /\ heap' = heap)
        /\ last'.put = Null => last'.err # "InvalidPatch"]_vars

\* set was handed an array as patch and failed.
C3_Witness ==
  /\ last.op = "set"
  /\ instanceofImmutableValue(heap, last.base)
  /\ isArray(heap, last.put)
  /\ last.err = "InvalidPatch"

\* C4 as stated: set, setProperty, deleteProperty and setDeep fail with
\* NotImmutable, returning nothing, when the base is not an Immutable Value.
C4_AsStated ==
  (/\ last.op \in {"set", "setProperty", "deleteProperty", "setDeep"}
   /\ ~instanceofImmutableValue(heap, last.base))
  => (last.err = "NotImmutable" /\ last.res = Undefined)

\* C5: at every level of a deep merge, a shared key either side of which is
\* terminal holds the patch's value itself.
C5_TerminalReplaces ==
  DeepReturned =>
    \A l \in LastLevels :
      LET r == OwnEntries(heap, l[1])
          b == OwnEntries(heap, l[2])
          p == OwnEntries(heap, l[3])
      IN \A k \in SharedKeys(b, p) :
           (isTerminal(heap, ValueAt(b, k)) \/ isTerminal(heap, ValueAt(p, k)))
           => (HasKey(r, k) /\ ValueAt(r, k) = ValueAt(p, k))

\* A deep merge with, at some key, a mapping in the base and a terminal in the
\* patch: the result holds the terminal.
C5_Witness ==
  /\ DeepReturned
  /\ \E l \in LastLevels :
       \E k \in SharedKeys(OwnEntries(heap, l[2]), OwnEntries(heap, l[3])) :
         /\ IsMapping(heap, GetProp(heap, l[2], k))
         /\ isTerminal(heap, GetProp(heap, l[3], k))
         /\ GetProp(heap, l[1], k) = GetProp(heap, l[3], k)

\* C6: at every level of a deep merge the result's keys are the base's keys
\* in base order followed by the patch-only keys in patch order, a patch-only
\* key holds the patch's value itself, and a shared key both sides of which
\* are mappings holds a new mapping, the merge one level down.
C6_RecursiveMerge ==
  DeepReturned =>
    \A l \in LastLevels :
      LET r == OwnEntries(heap, l[1])
          b == OwnEntries(heap, l[2])
          p == OwnEntries(heap, l[3])
      IN /\ KeysOf(r) = KeysOf(b) \o PatchOnlyKeys(b, p)
         /\ \A k \in KeySet(p) \ KeySet(b) : ValueAt(r, k) = ValueAt(p, k)
         /\ \A k \in SharedKeys(b, p) :
              (IsMapping(heap, ValueAt(b, k)) /\ IsMapping(heap, ValueAt(p, k)))
              => /\ IsMapping(heap, ValueAt(r, k))
                 /\ ValueAt(r, k) \notin {ValueAt(b, k), ValueAt(p, k)}
                 /\ <<ValueAt(r, k), ValueAt(b, k), ValueAt(p, k)>> \in LastLevels

\* setDeep({k:{m:1,n:2}}, {k:{n:9,p:3}}): the result's k is {m:1,n:9,p:3}.
C6_Witness ==
  /\ DeepReturned
  /\ KeysOf(resEntries) = <<"k">>
  /\ OwnEntries(heap, ValueAt(baseEntries, "k")) =
       <<Entry("m", Prim(1)), Entry("n", Prim(2))>>
  /\ OwnEntries(heap, ValueAt(putEntries, "k")) =
       <<Entry("n", Prim(9)), Entry("p", Prim(3))>>
  /\ OwnEntries(heap, ValueAt(resEntries, "k")) =
       <<Entry("m", Prim(1)), Entry("n", Prim(9)), Entry("p", Prim(3))>>

\* C7: deleteProperty returns a new Immutable Value holding the base's
\* entries except the named one, in the base's order, and raises nothing when
\* the name is absent; a set that adds a key its base lacks places it last.
C7_DeleteThenAppend ==
  /\ (last.op = "deleteProperty" /\ instanceofImmutableValue(heap, last.base))
     => /\ last.err = "none"
        /\ instanceofImmutableValue(heap, last.res)
        /\ last.res # last.base
        /\ resEntries = SelectSeq(baseEntries, LAMBDA e : e.key # last.name)
  /\ (/\ last.op = "set" /\ last.err = "none"
      /\ Len(putEntries) = 1
      /\ ~HasKey(baseEntries, putEntries[1].key))
     => resEntries = Append(baseEntries, putEntries[1])

\* B = {a, b, c} lost a through deleteProperty, and set with {a:9} on the
\* result gave the key order [b, c, a].
C7_Witness ==
  /\ last.op = "set" /\ last.err = "none"
  /\ calls = 2
  /\ KeysOf(baseEntries) = <<"b", "c">>
  /\ putEntries = <<Entry("a", Prim(9))>>
  /\ KeysOf(resEntries) = <<"b", "c", "a">>

\* C8: at every level of a deep merge, a base key the patch lacks holds the
\* base's value itself in the result.
C8_UntouchedKeysShared ==
  DeepReturned =>
    \A l \in LastLevels :
      LET r == OwnEntries(heap, l[1])
          b == OwnEntries(heap, l[2])
          p == OwnEntries(heap, l[3])
      IN \A k \in KeySet(b) \ KeySet(p) :
           HasKey(r, k) /\ ValueAt(r, k) = ValueAt(b, k)

\* setDeep(B, {}) on a base holding a mapping: the result holds that very
\* mapping.
C8_Witness ==
  /\ DeepReturned
  /\ IsRef(last.put) /\ putEntries = <<>>
  /\ \E k \in KeySet(baseEntries) :
       /\ IsMapping(heap, ValueAt(baseEntries, k))
       /\ ValueAt(resEntries, k) = ValueAt(baseEntries, k)

\* C9: at every level of a deep merge the result is an Immutable Value if
\* the base or the patch of that level is one, and a plain mapping
\* otherwise; the result of the call is an Immutable Value.
C9_SealedWhereImmutable ==
  DeepReturned =>
    /\ instanceofImmutableValue(heap, last.res)
    /\ \A l \in LastLevels :
         /\ IsRef(l[1])
         /\ heap[l[1].v].kind =
              IF \/ instanceofImmutableValue(heap, l[2])
                 \/ instanceofImmutableValue(heap, l[3])
              THEN "imm" ELSE "plain"

\* A nested level whose base is plain and whose patch is an Immutable Value
\* gave an Immutable Value.
C9_Witness ==
  /\ DeepReturned
  /\ \E l \in LastLevels :
       /\ l[1] # last.res
       /\ ~instanceofImmutableValue(heap, l[2])
       /\ instanceofImmutableValue(heap, l[3])
       /\ instanceofImmutableValue(heap, l[1])

\* Whether the key holds an array in b or in p.
ArrayAtSharedKey(h, b, p, k) ==
  isArray(h, GetProp(h, b, k)) \/ isArray(h, GetProp(h, p, k))

\* C10: a setDeep on an Immutable Value and a mapping returns, and at every
\* level a shared key holding an array on either side holds the patch's value
\* itself in the result.
C10_ArraysAreLeaves ==
  (/\ last.op = "setDeep"
   /\ instanceofImmutableValue(heap, last.base)
   /\ IsMapping(heap, last.put))
  => /\ last.err = "none"
     /\ \A l \in LastLevels :
          \A k \in SharedKeys(OwnEntries(heap, l[2]), OwnEntries(heap, l[3])) :
            ArrayAtSharedKey(heap, l[2], l[3], k)
            => GetProp(heap, l[1], k) = GetProp(heap, l[3], k)

\* A deep merge returned with, at one shared key, arrays on both sides and,
\* at another, an array in the patch against a mapping in the base.
C10_Witness ==
  /\ DeepReturned
  /\ \E k \in SharedKeys(baseEntries, putEntries) :
       /\ isArray(heap, ValueAt(baseEntries, k))
       /\ isArray(heap, ValueAt(putEntries, k))
       /\ ValueAt(resEntries, k) = ValueAt(putEntries, k)
  /\ \E l \in LastLevels :
       \E k \in SharedKeys(OwnEntries(heap, l[2]), OwnEntries(heap, l[3])) :
         /\ IsMapping(heap, GetProp(heap, l[2], k))
         /\ isArray(heap, GetProp(heap, l[3], k))
         /\ GetProp(heap, l[1], k) = GetProp(heap, l[3], k)

====
